---- MODULE Spec2Model ----
(***************************************************************************)
(* Model of the Assembly Line Simulator REST API server (api/main.py):     *)
(* the store readers, the statistics aggregation, the simulation launcher  *)
(* and the websocket live feed, all running on one asyncio event loop.     *)
(***************************************************************************)
EXTENDS Integers, Sequences, FiniteSets, TLC

(***************************************************************************)
(* Bounds of the model.                                                    *)
(***************************************************************************)
\* longest caller-supplied file field, in characters
MaxPathLen == 3
\* rows the simulation may have written to the store, both tables together
MaxRows == 3
\* messages one observer is followed for
MaxTicks == 2

\* characters caller-supplied file fields are made of
PathAlphabet == {"/", ".", "a"}
\* values of orders.created_at and orders.completed_at (0 stands for NULL);
\* station_history.timestamp counts the snapshots
Timestamps == {1, 2}
\* values of station_history.items_processed
ItemCounts == {0, 1}
\* values of station_history.station_name
StationNames == {"s1", "s2"}
\* values of station_history.inventory_remaining
Inventories == {7}
\* texts the simulation process writes to stdout and to stderr
Outputs == {"x", "y"}
\* values of orders.customer_name
CustomerNames == {"c1"}
\* names and ids a caller asks for (the last of each matches no row)
AskedCustomers == {"c1", "c9"}
AskedStations == {"s1", "s9"}
AskedOrderIds == {1, 9}
\* values of the limit query parameter (SQLite reads a negative LIMIT as none)
Limits == {-1, 0, 1, 2}
\* exit codes of the simulation process (negative: killed by a signal)
ExitCodes == {-9, 0, 1}
\* POST /simulation/run requests in flight
Runs == {"r1", "r2"}
\* websocket connections
Observers == {"o1", "o2"}

None == "None"

(***************************************************************************)
(* Strings are sequences of characters; a path is a sequence of            *)
(* components.                                                             *)
(***************************************************************************)
RECURSIVE StringsUpTo(_)
StringsUpTo(n) ==
    IF n = 0 THEN {<<>>}
    ELSE LET shorter == StringsUpTo(n - 1)
         IN  shorter \cup {Append(s, c) : s \in shorter, c \in PathAlphabet}

PathInputs == StringsUpTo(MaxPathLen)

Fields == {"stations_file_1", "stations_file_2",
           "customer_orders_file", "assembly_line_file"}

\* class SimulationRequest: the defaults of the four file fields
DefaultRequest ==
    [f \in Fields |->
        <<"d", "a", "t", "a", "/">> \o
        CASE f = "stations_file_1" ->
                <<"S", "t", "a", "t", "i", "o", "n", "s", "1", ".", "t", "x", "t">>
          [] f = "stations_file_2" ->
                <<"S", "t", "a", "t", "i", "o", "n", "s", "2", ".", "t", "x", "t">>
          [] f = "customer_orders_file" ->
                <<"C", "u", "s", "t", "o", "m", "e", "r", "O", "r", "d", "e", "r", "s",
                  ".", "t", "x", "t">>
          [] f = "assembly_line_file" ->
                <<"A", "s", "s", "e", "m", "b", "l", "y", "L", "i", "n", "e",
                  ".", "t", "x", "t">>]

\* requests a caller sends: the defaults with one field replaced
RequestInputs ==
    {DefaultRequest} \cup
    {[DefaultRequest EXCEPT ![f] = s] : f \in Fields, s \in PathInputs}

\* Path(__file__).parent.parent
ProjectRoot == << <<"a", "p", "p">> >>

\* data_dir = Path(__file__).parent.parent / "data"
DataDir == Append(ProjectRoot, <<"d", "a", "t", "a">>)

\* str.split("/")
RECURSIVE SplitSlash(_)
SplitSlash(s) ==
    IF s = <<>> THEN << <<>> >>
    ELSE LET rest == SplitSlash(Tail(s))
         IN  IF Head(s) = "/"
             THEN << <<>> >> \o rest
             ELSE << <<Head(s)>> \o Head(rest) >> \o Tail(rest)

\* value.split("/")[-1]
FileName(s) == LET parts == SplitSlash(s) IN parts[Len(parts)]

\* pathlib: the components a string contributes ("" and "." are dropped)
RECURSIVE Components(_)
Components(parts) ==
    IF parts = <<>> THEN <<>>
    ELSE IF Head(parts) \in {<<>>, <<".">>}
         THEN Components(Tail(parts))
         ELSE <<Head(parts)>> \o Components(Tail(parts))

\* pathlib: dir / name (an absolute name replaces dir; ".." is kept as it is)
PathJoin(dir, name) ==
    IF name # <<>> /\ Head(name) = "/"
    THEN Components(SplitSlash(name))
    ELSE dir \o Components(SplitSlash(name))

\* the four arguments of the command line: data_dir / value.split("/")[-1]
DataFileArgs(request) == [f \in Fields |-> PathJoin(DataDir, FileName(request[f]))]

\* the file the executable opens for an argument: ".." names the parent
RECURSIVE Resolve(_)
Resolve(p) ==
    IF p = <<>> THEN <<>>
    ELSE LET front == Resolve(SubSeq(p, 1, Len(p) - 1))
             last  == p[Len(p)]
         IN  IF last = <<".", ".">>
             THEN IF front = <<>> THEN <<>> ELSE SubSeq(front, 1, Len(front) - 1)
             ELSE Append(front, last)

IsPrefix(a, b) == Len(a) <= Len(b) /\ SubSeq(b, 1, Len(a)) = a

(***************************************************************************)
(* State.                                                                  *)
(***************************************************************************)
VARIABLES
    exeState,         \* build/assembly_line: "absent", "present" or "unrunnable"
    dbState,          \* the file at DB_PATH: "absent", "ok" or "malformed"
    orders,           \* rows of table orders, in rowid order
    station_history,  \* rows of table station_history, in rowid order
    procs,            \* per run request: <<argv>> of its running process, or <<>>
    result,           \* <<CompletedProcess>> of the process that exited in the last step
    response,         \* the HTTP response sent by the last step, or NoResponse
    asked,            \* <<limit>> of the request the last step answered, or <<>>
    obsPc,            \* per observer: position of its websocket_endpoint task
    connected,        \* per observer: the client still holds the connection
    pending,          \* per observer: <<stats>> computed and not yet sent, or <<>>
    sent,             \* per observer: messages the client received (saturates at MaxTicks)
    pushed,           \* <<message>> the last step delivered to a client, or <<>>
    obsEnd            \* per observer: what ended its task, or None

store == <<dbState, orders, station_history>>
tasks == <<obsPc, connected, pending, sent, obsEnd>>
vars  == <<exeState, dbState, orders, station_history, procs, result, response,
           asked, obsPc, connected, pending, sent, pushed, obsEnd>>

(***************************************************************************)
(* SQL over the two tables.                                                *)
(***************************************************************************)
RECURSIVE DescOrders(_, _)
\* ORDER BY k DESC: every sequence listing the members of S once, larger k
\* first; rows with equal k come in any order
DescOrders(S, k) ==
    IF S = {} THEN {<<>>}
    ELSE UNION {{<<x>> \o q : q \in DescOrders(S \ {x}, k)} :
                   x \in {y \in S : \A z \in S : k[y] >= k[z]}}

\* LIMIT ?: a negative limit is no limit
Limit(rows, n) == IF n < 0 \/ n >= Len(rows) THEN rows ELSE SubSeq(rows, 1, n)

\* SELECT COUNT(*) FROM orders
CountAll(os) == Len(os)

\* SELECT COUNT(*) FROM orders WHERE is_completed = 1
CountCompleted(os) == Cardinality({i \in DOMAIN os : os[i].is_completed = 1})

RECURSIVE SumItems(_, _)
\* SUM(items_processed) over the rows of one station
SumItems(h, name) ==
    IF h = <<>> THEN 0
    ELSE (IF Head(h).station_name = name THEN Head(h).items_processed ELSE 0)
         + SumItems(Tail(h), name)

\* SELECT station_name, SUM(items_processed) ... GROUP BY station_name
StationTotals(h) ==
    [n \in {h[i].station_name : i \in DOMAIN h} |-> SumItems(h, n)]

\* a plausible slip: ORDER BY total (ascending)
OrderByTotalAsc(g) == DescOrders(DOMAIN g, [n \in DOMAIN g |-> 0 - g[n]])

\* ORDER BY total DESC: every order of the groups the sort may produce
OrderByTotalDesc(g) == DescOrders(DOMAIN g, g)

\* most_active[0] if most_active else None, for every row fetchone() may return
MostActiveNames(h) ==
    LET g == StationTotals(h)
    IN  {IF q # <<>> THEN q[1] ELSE None : q \in OrderByTotalDesc(g)}

(***************************************************************************)
(* get_statistics.  completion_rate is kept in hundredths of a percent.    *)
(***************************************************************************)
\* round(n / d, 0), ties to even
RoundHalfEven(n, d) ==
    LET q == n \div d
        r == n % d
    IN  IF 2 * r < d THEN q
        ELSE IF 2 * r > d THEN q + 1
        ELSE IF q % 2 = 0 THEN q ELSE q + 1

\* a plausible slip: completed orders are set against the incomplete ones
CompletionRateOverIncomplete(completed, total) ==
    IF total - completed > 0
    THEN RoundHalfEven(completed * 10000, total - completed)
    ELSE 0

\* round((completed / total * 100) if total > 0 else 0.0, 2)
CompletionRate(completed, total) ==
    IF total > 0 THEN RoundHalfEven(completed * 10000, total) ELSE 0

\* SimulationStats(total_orders=0, ..., most_active_station=None)
ZeroStats ==
    [total_orders |-> 0, completed_orders |-> 0, incomplete_orders |-> 0,
     completion_rate |-> 0, most_active_station |-> None]

\* a plausible slip: incomplete is not reduced by the completed orders
StatsOfAllIncomplete(os, h) ==
    LET total     == CountAll(os)
        completed == CountCompleted(os)
    IN  {[total_orders |-> total,
          completed_orders |-> completed,
          incomplete_orders |-> total,
          completion_rate |-> CompletionRate(completed, total),
          most_active_station |-> name] : name \in MostActiveNames(h)}

\* the SimulationStats get_statistics builds from an existing, readable store
StatsOf(os, h) ==
    LET total     == CountAll(os)
        completed == CountCompleted(os)
    IN  {[total_orders |-> total,
          completed_orders |-> completed,
          incomplete_orders |-> total - completed,
          completion_rate |-> CompletionRate(completed, total),
          most_active_station |-> name] : name \in MostActiveNames(h)}

\* a returned value, and a raised HTTPException
Ok(endpoint, body) == [endpoint |-> endpoint, status |-> 200, body |-> body]
Error(endpoint, status, detail) == [endpoint |-> endpoint, status |-> status, body |-> detail]
NoResponse == [endpoint |-> None, status |-> 0, body |-> None]

\* every outcome of one call of get_statistics
StatisticsOutcomes(db, os, h) ==
    IF db = "absent"
    THEN {Ok("/stats", ZeroStats)}
    ELSE IF db = "malformed"
         THEN {Error("/stats", 500, "query failed")}
         ELSE {Ok("/stats", s) : s \in StatsOf(os, h)}

(***************************************************************************)
(* The list and lookup endpoints.                                          *)
(***************************************************************************)
\* ORDER BY column DESC: every order of the rows the sort may produce
SortDesc(rows, column) ==
    {[i \in DOMAIN rows |-> rows[q[i]]] :
        q \in DescOrders(DOMAIN rows, [i \in DOMAIN rows |-> rows[i][column]])}

IsCompleted(row) == row.is_completed = 1
IsIncomplete(row) == row.is_completed = 0

\* row_to_order
RowToOrder(row) == [row EXCEPT !.is_completed = (row.is_completed # 0)]

ToOrders(rows) == [i \in DOMAIN rows |-> RowToOrder(rows[i])]

\* the endpoints that answer [] while the store file does not exist
ListOutcomes(endpoint, db, bodies) ==
    IF db = "absent"
    THEN {Ok(endpoint, <<>>)}
    ELSE IF db = "malformed"
         THEN {Error(endpoint, 500, "query failed")}
         ELSE {Ok(endpoint, b) : b \in bodies}

\* get_orders
OrdersOutcomes(db, os, limit) ==
    ListOutcomes("/orders", db,
        {ToOrders(Limit(rows, limit)) : rows \in SortDesc(os, "created_at")})

\* get_completed_orders
CompletedOutcomes(db, os, limit) ==
    ListOutcomes("/orders/completed", db,
        {ToOrders(Limit(rows, limit)) :
            rows \in SortDesc(SelectSeq(os, IsCompleted), "completed_at")})

\* get_incomplete_orders
IncompleteOutcomes(db, os, limit) ==
    ListOutcomes("/orders/incomplete", db,
        {ToOrders(Limit(rows, limit)) :
            rows \in SortDesc(SelectSeq(os, IsIncomplete), "created_at")})

\* get_orders_by_customer
CustomerOutcomes(db, os, name) ==
    LET OfCustomer(row) == row.customer_name = name
    IN  ListOutcomes("/orders/customer/{customer_name}", db,
            {ToOrders(rows) : rows \in SortDesc(SelectSeq(os, OfCustomer), "created_at")})

\* a plausible slip: get_order answers like the list endpoints
OrderLenient(db, os, id) ==
    LET WithId(row) == row.order_id = id
        found == SelectSeq(os, WithId)
    IN  IF db = "absent"
        THEN {Ok("/orders/{order_id}", <<>>)}
        ELSE IF db = "malformed"
             THEN {Error("/orders/{order_id}", 500, "query failed")}
             ELSE IF found = <<>>
                  THEN {Error("/orders/{order_id}", 404, "Order not found")}
                  ELSE {Ok("/orders/{order_id}", RowToOrder(found[1]))}

\* get_order: get_db_connection raises 404 while the store file does not exist
OrderOutcomes(db, os, id) ==
    LET WithId(row) == row.order_id = id
        found == SelectSeq(os, WithId)
    IN  IF db = "absent"
        THEN {Error("/orders/{order_id}", 404, "Database not found")}
        ELSE IF db = "malformed"
             THEN {Error("/orders/{order_id}", 500, "query failed")}
             ELSE IF found = <<>>
                  THEN {Error("/orders/{order_id}", 404, "Order not found")}
                  ELSE {Ok("/orders/{order_id}", RowToOrder(found[1]))}

RECURSIVE MaxOf(_)
MaxOf(S) ==
    LET x == CHOOSE y \in S : TRUE
    IN  IF S = {x} THEN x
        ELSE LET m == MaxOf(S \ {x}) IN IF x > m THEN x ELSE m

\* get_stations: one StationRecord per station, largest total first
StationsOutcomes(db, h, limit) ==
    LET g == StationTotals(h)
        Of(n) == {i \in DOMAIN h : h[i].station_name = n}
        Row(n) == [station_name |-> n,
                   items_processed |-> g[n],
                   inventory_remaining |-> MaxOf({h[i].inventory_remaining : i \in Of(n)}),
                   timestamp |-> MaxOf({h[i].timestamp : i \in Of(n)})]
    IN  ListOutcomes("/stations", db,
            {Limit([i \in DOMAIN q |-> Row(q[i])], limit) : q \in OrderByTotalDesc(g)})

\* get_station_history
HistoryOutcomes(db, h, name, limit) ==
    LET OfStation(row) == row.station_name = name
    IN  ListOutcomes("/stations/{station_name}/history", db,
            {Limit(rows, limit) : rows \in SortDesc(SelectSeq(h, OfStation), "timestamp")})

\* health_check
HealthOutcome(db) ==
    IF db # "absent"
    THEN Ok("/health", [status |-> "healthy", database |-> "connected"])
    ELSE Ok("/health", [status |-> "healthy", database |-> "not_initialized"])

(***************************************************************************)
(* run_simulation and the event loop.                                      *)
(***************************************************************************)
\* a plausible slip: the process is awaited and the loop goes on meanwhile
LoopNeverBlocked(p) == FALSE

\* subprocess.run is a blocking call inside a coroutine: while a process
\* runs, the one event loop of the server runs nothing else
LoopBlocked(p) == \E r \in Runs : p[r] # <<>>

\* a plausible slip: the executable is not looked for
ExecutableAssumed(exe) == TRUE

\* exe_path.exists()
ExecutableFound(exe) == exe # "absent"

\* a plausible slip: only a positive exit code counts as a failure
RunResponsePositive(res) ==
    IF res.returncode > 0
    THEN Error("/simulation/run", 500, <<"Simulation failed: ", res.stderr>>)
    ELSE Ok("/simulation/run", [status |-> "success", output |-> res.stdout])

\* the answer of run_simulation once subprocess.run has returned
RunResponse(res) ==
    IF res.returncode # 0
    THEN Error("/simulation/run", 500, <<"Simulation failed: ", res.stderr>>)
    ELSE Ok("/simulation/run", [status |-> "success", output |-> res.stdout])

(***************************************************************************)
(* Initial state: the server has started; the executable and the store     *)
(* file are whatever the deployment holds.                                 *)
(***************************************************************************)
Init ==
    /\ exeState \in {"absent", "present", "unrunnable"}
    /\ dbState \in {"absent", "ok", "malformed"}
    /\ orders = <<>>
    /\ station_history = <<>>
    /\ procs = [r \in Runs |-> <<>>]
    /\ result = <<>>
    /\ response = NoResponse
    /\ asked = <<>>
    /\ obsPc = [o \in Observers |-> "none"]
    /\ connected = [o \in Observers |-> FALSE]
    /\ pending = [o \in Observers |-> <<>>]
    /\ sent = [o \in Observers |-> 0]
    /\ pushed = <<>>
    /\ obsEnd = [o \in Observers |-> None]

\* a handler that only answers: FastAPI sends what it returned or raised
AnswerTo(outcomes, params) ==
    /\ ~LoopBlocked(procs)
    /\ \E out \in outcomes : response' = out
    /\ asked' = params
    /\ result' = <<>>
    /\ pushed' = <<>>
    /\ UNCHANGED <<exeState, store, procs, tasks>>

Answer(outcomes) == AnswerTo(outcomes, <<>>)

GetStatistics == Answer(StatisticsOutcomes(dbState, orders, station_history))

GetOrders(limit) == AnswerTo(OrdersOutcomes(dbState, orders, limit), <<limit>>)

GetCompletedOrders(limit) ==
    AnswerTo(CompletedOutcomes(dbState, orders, limit), <<limit>>)

GetIncompleteOrders(limit) ==
    AnswerTo(IncompleteOutcomes(dbState, orders, limit), <<limit>>)

GetOrdersByCustomer(name) == Answer(CustomerOutcomes(dbState, orders, name))

GetOrder(id) == Answer(OrderOutcomes(dbState, orders, id))

GetStations(limit) == Answer(StationsOutcomes(dbState, station_history, limit))

GetStationHistory(name, limit) ==
    Answer(HistoryOutcomes(dbState, station_history, name, limit))

HealthCheck == Answer({HealthOutcome(dbState)})

\* run_simulation up to subprocess.run: 404 without the executable, 500 when
\* it cannot be started, else the process runs and the coroutine waits in the call
RunSimulation(r, request) ==
    /\ ~LoopBlocked(procs)
    /\ procs[r] = <<>>
    /\ IF ~ExecutableFound(exeState)
       THEN /\ response' = Error("/simulation/run", 404, "Simulation executable not found")
            /\ procs' = procs
       ELSE IF exeState # "present"
            THEN /\ response' = Error("/simulation/run", 500, "OSError")
                 /\ procs' = procs
            ELSE /\ response' = NoResponse
                 /\ procs' = [procs EXCEPT ![r] = <<DataFileArgs(request)>>]
    /\ result' = <<>>
    /\ asked' = <<>>
    /\ pushed' = <<>>
    /\ UNCHANGED <<exeState, store, tasks>>

\* the process of request r exits: subprocess.run returns and the rest of
\* run_simulation answers the request
ProcExit(r) ==
    /\ procs[r] # <<>>
    /\ \E code \in ExitCodes, out \in Outputs, err \in Outputs :
          LET res == [returncode |-> code, stdout |-> out, stderr |-> err]
          IN  /\ result' = <<res>>
              /\ response' = RunResponse(res)
    /\ procs' = [procs EXCEPT ![r] = <<>>]
    /\ asked' = <<>>
    /\ pushed' = <<>>
    /\ UNCHANGED <<exeState, store, tasks>>

(***************************************************************************)
(* The simulation process: the only writer of the store.                   *)
(***************************************************************************)
Running == \E r \in Runs : procs[r] # <<>>

\* build/assembly_line is made by "make release" or a cmake build, and may
\* be removed or replaced between two runs
Build ==
    /\ ~Running
    /\ exeState' \in {"absent", "present", "unrunnable"} \ {exeState}
    /\ response' = NoResponse
    /\ result' = <<>>
    /\ asked' = <<>>
    /\ pushed' = <<>>
    /\ UNCHANGED <<store, procs, tasks>>

Rows == Len(orders) + Len(station_history)

Silent == response' = NoResponse /\ asked' = <<>> /\ result' = <<>> /\ pushed' = <<>>

SimCreateStore ==
    /\ Running
    /\ dbState = "absent"
    /\ dbState' = "ok"
    /\ Silent
    /\ UNCHANGED <<exeState, orders, station_history, procs, tasks>>

SimAddOrder(times) ==
    /\ Running
    /\ dbState = "ok"
    /\ Rows < MaxRows
    /\ \E c \in CustomerNames, t \in times :
          orders' = Append(orders, [order_id |-> Len(orders) + 1,
                                    customer_name |-> c,
                                    is_completed |-> 0,
                                    created_at |-> t,
                                    completed_at |-> 0])
    /\ Silent
    /\ UNCHANGED <<exeState, dbState, station_history, procs, tasks>>

SimCompleteOrder(times) ==
    /\ Running
    /\ dbState = "ok"
    /\ \E i \in DOMAIN orders, t \in times :
          /\ orders[i].is_completed = 0
          /\ orders' = [orders EXCEPT ![i].is_completed = 1, ![i].completed_at = t]
    /\ Silent
    /\ UNCHANGED <<exeState, dbState, station_history, procs, tasks>>

SimAddStationRecord ==
    /\ Running
    /\ dbState = "ok"
    /\ Rows < MaxRows
    /\ \E n \in StationNames, k \in ItemCounts, v \in Inventories :
          station_history' = Append(station_history,
                                    [station_name |-> n,
                                     items_processed |-> k,
                                     inventory_remaining |-> v,
                                     timestamp |-> Len(station_history) + 1])
    /\ Silent
    /\ UNCHANGED <<exeState, dbState, orders, procs, tasks>>

(***************************************************************************)
(* websocket_endpoint: one task per observer.                              *)
(***************************************************************************)
Min(a, b) == IF a < b THEN a ELSE b

\* await websocket.accept()
Connect(o) ==
    /\ ~LoopBlocked(procs)
    /\ obsPc[o] = "none"
    /\ obsPc' = [obsPc EXCEPT ![o] = "stats"]
    /\ connected' = [connected EXCEPT ![o] = TRUE]
    /\ Silent
    /\ UNCHANGED <<exeState, store, procs, pending, sent, obsEnd>>

\* stats = await get_statistics(): an HTTPException leaves the loop and the task
ComputeStats(o) ==
    /\ ~LoopBlocked(procs)
    /\ obsPc[o] = "stats"
    /\ \E out \in StatisticsOutcomes(dbState, orders, station_history) :
          IF out.status = 200
          THEN /\ pending' = [pending EXCEPT ![o] = <<out.body>>]
               /\ obsPc' = [obsPc EXCEPT ![o] = "send"]
               /\ obsEnd' = obsEnd
          ELSE /\ pending' = pending
               /\ obsPc' = [obsPc EXCEPT ![o] = "closed"]
               /\ obsEnd' = [obsEnd EXCEPT ![o] = "stats_error"]
    /\ Silent
    /\ UNCHANGED <<exeState, store, procs, connected, sent>>

\* await websocket.send_json(stats.dict()): the client receives the message
Push(o) ==
    /\ ~LoopBlocked(procs)
    /\ obsPc[o] = "send"
    /\ connected[o]
    /\ pushed' = <<[to |-> o, message |-> pending[o][1]]>>
    /\ sent' = [sent EXCEPT ![o] = Min(sent[o] + 1, MaxTicks)]
    /\ pending' = [pending EXCEPT ![o] = <<>>]
    /\ obsPc' = [obsPc EXCEPT ![o] = "sleep"]
    /\ response' = NoResponse
    /\ result' = <<>>
    /\ asked' = <<>>
    /\ UNCHANGED <<exeState, store, procs, connected, obsEnd>>

\* a plausible slip: the feeds share one sender, and a failed send ends them all
PushFailsAll(o) ==
    /\ ~LoopBlocked(procs)
    /\ obsPc[o] = "send"
    /\ \E how \in {"disconnect", "transport_error"} :
          /\ connected[o] => how = "transport_error"
          /\ obsEnd' = [p \in Observers |->
                          IF obsPc[p] \in {"stats", "send", "sleep"} THEN how ELSE obsEnd[p]]
    /\ pending' = [p \in Observers |-> <<>>]
    /\ obsPc' = [p \in Observers |->
                    IF obsPc[p] \in {"stats", "send", "sleep"} THEN "closed" ELSE obsPc[p]]
    /\ connected' = [p \in Observers |-> FALSE]
    /\ Silent
    /\ UNCHANGED <<exeState, store, procs, sent>>

\* send_json raises: WebSocketDisconnect is caught and the task returns, any
\* other exception of the transport leaves the task as an error.  Sending to
\* a client that has gone raises one or the other.
PushFails(o) ==
    /\ ~LoopBlocked(procs)
    /\ obsPc[o] = "send"
    /\ \E how \in {"disconnect", "transport_error"} :
          /\ connected[o] => how = "transport_error"
          /\ obsEnd' = [obsEnd EXCEPT ![o] = how]
    /\ pending' = [pending EXCEPT ![o] = <<>>]
    /\ obsPc' = [obsPc EXCEPT ![o] = "closed"]
    /\ connected' = [connected EXCEPT ![o] = FALSE]
    /\ Silent
    /\ UNCHANGED <<exeState, store, procs, sent>>

\* await asyncio.sleep(1) returns
Wake(o) ==
    /\ ~LoopBlocked(procs)
    /\ obsPc[o] = "sleep"
    /\ obsPc' = [obsPc EXCEPT ![o] = "stats"]
    /\ Silent
    /\ UNCHANGED <<exeState, store, procs, connected, pending, sent, obsEnd>>

\* the client closes the connection; the task does not read from the socket
Disconnect(o) ==
    /\ obsPc[o] \in {"stats", "send", "sleep"}
    /\ connected[o]
    /\ connected' = [connected EXCEPT ![o] = FALSE]
    /\ Silent
    /\ UNCHANGED <<exeState, store, procs, obsPc, pending, sent, obsEnd>>

(***************************************************************************)
(* Specifications.                                                         *)
(***************************************************************************)
Launcher(requests) ==
    \/ \E r \in Runs, request \in requests : RunSimulation(r, request)
    \/ \E r \in Runs : ProcExit(r)

\* the writes of a running simulation; times are the timestamps it may write
Simulation(times) ==
    \/ SimCreateStore
    \/ SimAddOrder(times)
    \/ SimCompleteOrder(times)
    \/ SimAddStationRecord

OrderReaders ==
    \/ \E limit \in Limits : GetOrders(limit)
    \/ \E limit \in Limits : GetCompletedOrders(limit)
    \/ \E limit \in Limits : GetIncompleteOrders(limit)
    \/ \E name \in AskedCustomers : GetOrdersByCustomer(name)
    \/ \E id \in AskedOrderIds : GetOrder(id)

StationReaders ==
    \/ GetStatistics
    \/ \E limit \in Limits : GetStations(limit)
    \/ \E name \in AskedStations, limit \in Limits : GetStationHistory(name, limit)

Publishers ==
    \/ \E o \in Observers : Connect(o)
    \/ \E o \in Observers : ComputeStats(o)
    \/ \E o \in Observers : Push(o)
    \/ \E o \in Observers : PushFails(o)
    \/ \E o \in Observers : Wake(o)
    \/ \E o \in Observers : Disconnect(o)

\* the launcher with every request a caller may send
NextPath == Launcher(RequestInputs)

SpecPath == Init /\ [][NextPath]_vars

\* the store, its writer and all its readers; every order of one instant
NextStore ==
    \/ Launcher({DefaultRequest})
    \/ Build
    \/ Simulation({1})
    \/ OrderReaders
    \/ StationReaders

SpecStore == Init /\ [][NextStore]_vars

\* the orders table with orders of several instants, and its readers
NextOrders ==
    \/ Launcher({DefaultRequest})
    \/ SimCreateStore
    \/ SimAddOrder(Timestamps)
    \/ SimCompleteOrder(Timestamps)
    \/ OrderReaders

SpecOrders == Init /\ [][NextOrders]_vars

\* the tasks of the event loop: run requests, health checks and live feeds
NextLoop == Launcher({DefaultRequest}) \/ HealthCheck \/ SimCreateStore \/ Publishers

SpecLoop == Init /\ [][NextLoop]_vars

(***************************************************************************)
(* Properties.                                                             *)
(***************************************************************************)
\* C1: every data file argument handed to the executable names a file inside
\* the data directory, whatever the four file fields of the request hold.
C1_ArgumentsInsideDataDir ==
    \A r \in Runs :
        procs[r] # <<>> =>
            \A f \in Fields : IsPrefix(DataDir, Resolve(procs[r][1][f]))

\* C2: at most one simulation process started by the server runs at a time.
C2_AtMostOneProcess == Cardinality({r \in Runs : procs[r] # <<>>}) <= 1

C2_Witness ==
    /\ procs["r2"] # <<>>
    /\ procs["r1"] = <<>>
    /\ ~ENABLED RunSimulation("r1", DefaultRequest)

\* C3: while a request waits for the simulation process, or a live feed
\* waits out its tick, the server can still handle a health check.
C3_WaitsDoNotBlock ==
    (Running \/ \E o \in Observers : obsPc[o] = "sleep") => ENABLED HealthCheck

ListEndpoints ==
    {"/orders", "/orders/completed", "/orders/incomplete",
     "/orders/customer/{customer_name}", "/stations",
     "/stations/{station_name}/history"}

\* C4: while the store file does not exist, /stats answers the zero
\* snapshot, every list endpoint answers an empty list, and
\* /orders/{order_id} answers 404.
C4_MissingStore ==
    dbState = "absent" =>
        /\ response.endpoint = "/stats" =>
              response.status = 200 /\ response.body = ZeroStats
        /\ response.endpoint \in ListEndpoints =>
              response.status = 200 /\ response.body = <<>>
        /\ response.endpoint = "/orders/{order_id}" => response.status = 404

C4_Witness ==
    dbState = "absent" /\ response.endpoint = "/orders/{order_id}"
                       /\ response.status = 404

\* the statistics the last step returned to a caller or computed for a feed
Snapshots ==
    (IF response.endpoint = "/stats" /\ response.status = 200
     THEN {response.body} ELSE {})
    \cup {pending[o][1] : o \in {x \in Observers : pending[x] # <<>>}}

\* C5: every snapshot has 0 <= completed <= total, incomplete >= 0 and
\* 0 <= completion_rate <= 100, and completion_rate is 0 when total is 0.
C5_RateInRange ==
    \A s \in Snapshots :
        /\ 0 <= s.completed_orders /\ s.completed_orders <= s.total_orders
        /\ s.incomplete_orders >= 0
        /\ 0 <= s.completion_rate /\ s.completion_rate <= 10000
        /\ s.total_orders = 0 => s.completion_rate = 0

C5_Witness ==
    /\ response.endpoint = "/stats"
    /\ response.status = 200
    /\ response.body.total_orders = 3
    /\ response.body.completed_orders = 2
    /\ response.body.completion_rate = 6667

\* C6: the loop of a live feed ends only when its observer has disconnected
\* or the transport has failed.
C6_LoopEndsOnlyOnDisconnect ==
    \A o \in Observers :
        obsPc[o] = "closed" => obsEnd[o] \in {"disconnect", "transport_error"}

\* C7: once an observer has disconnected, no message is pushed to it and its
\* task starts no further tick.
C7_DisconnectedIsTerminal ==
    [][\A o \in Observers :
          (obsPc[o] \in {"stats", "send", "sleep"} /\ ~connected[o]) =>
              /\ pushed' = <<>> \/ pushed'[1].to # o
              /\ ~(obsPc[o] = "sleep" /\ obsPc'[o] = "stats")]_vars

\* C8: without the executable a run request is answered 404, no process is
\* started and the store is left as it was.
C8_MissingExecutable ==
    [][exeState = "absent" =>
          /\ procs' = procs
          /\ response'.endpoint = "/simulation/run" =>
                response'.status = 404 /\ store' = store]_vars

C8_Witness ==
    /\ exeState = "absent"
    /\ response.endpoint = "/simulation/run"
    /\ response.status = 404
    /\ orders # <<>>

\* C9: a process that exited with a non-zero code is answered 500 with its
\* stderr, one that exited with 0 is answered success with its stdout.
C9_ExitCodeDecides ==
    result # <<>> =>
        /\ response.endpoint = "/simulation/run"
        /\ IF result[1].returncode # 0
           THEN /\ response.status = 500
                /\ response.body = <<"Simulation failed: ", result[1].stderr>>
           ELSE /\ response.status = 200
                /\ response.body.status = "success"
                /\ response.body.output = result[1].stdout

C9_Witness ==
    /\ result # <<>>
    /\ result[1].returncode < 0
    /\ response.status = 500

\* C10: most_active_station is absent exactly when station_history has no
\* row; otherwise no station has a larger sum of items_processed.
C10_MostActiveStation ==
    (response.endpoint = "/stats" /\ response.status = 200) =>
        LET name == response.body.most_active_station
        IN  /\ name = None <=> station_history = <<>>
            /\ name # None =>
                  /\ \E i \in DOMAIN station_history :
                        station_history[i].station_name = name
                  /\ \A n \in StationNames :
                        SumItems(station_history, name) >= SumItems(station_history, n)

C10_Witness ==
    /\ response.endpoint = "/stats"
    /\ response.status = 200
    /\ response.body.most_active_station = "s2"
    /\ Len(station_history) = 3
    /\ SumItems(station_history, "s1") = 1
    /\ SumItems(station_history, "s2") = 2

OrderListEndpoints == {"/orders", "/orders/completed", "/orders/incomplete"}

\* the orders of the table a list endpoint selects, as it returns them
Selected(endpoint) ==
    LET all == {RowToOrder(orders[i]) : i \in DOMAIN orders}
    IN  CASE endpoint = "/orders/completed" -> {o \in all : o.is_completed}
          [] endpoint = "/orders/incomplete" -> {o \in all : ~o.is_completed}
          [] OTHER -> all

\* the column a list endpoint orders by
SortColumn(endpoint) ==
    IF endpoint = "/orders/completed" THEN "completed_at" ELSE "created_at"

\* C11: a list of orders holds the first `limit` orders of those matching
\* the filter, most recent first: no more than `limit`, all matching, in
\* descending order, and none left out that is more recent than one returned.
C11_FirstLimitOrders ==
    (response.endpoint \in OrderListEndpoints /\ response.status = 200) =>
        LET body   == response.body
            limit  == asked[1]
            all    == Selected(response.endpoint)
            column == SortColumn(response.endpoint)
            atMost == IF limit < 0 THEN 0 ELSE limit
        IN  /\ Len(body) = Min(atMost, Cardinality(all))
            /\ \A i \in DOMAIN body : body[i] \in all
            /\ \A i, j \in DOMAIN body : i < j =>
                  /\ body[i] # body[j]
                  /\ body[i][column] >= body[j][column]
            /\ \A o \in all :
                  (\A i \in DOMAIN body : body[i] # o) =>
                      \A i \in DOMAIN body : body[i][column] >= o[column]

\* C13: in every snapshot total_orders is the sum of completed_orders and
\* incomplete_orders.
C13_TotalIsSum ==
    \A s \in Snapshots : s.total_orders = s.completed_orders + s.incomplete_orders

C13_Witness ==
    /\ response.endpoint = "/stats"
    /\ response.status = 200
    /\ response.body.total_orders = 3
    /\ response.body.completed_orders = 1
    /\ response.body.incomplete_orders = 2

\* the live feeds while the simulation adds orders to the store
NextFeed ==
    \/ Launcher({DefaultRequest})
    \/ SimCreateStore
    \/ SimAddOrder({1})
    \/ Publishers

SpecFeed == Init /\ [][NextFeed]_vars

\* the statistics a call of get_statistics may return from the store as it is
FreshStats ==
    {out.body : out \in {x \in StatisticsOutcomes(dbState, orders, station_history) :
                            x.status = 200}}

\* C12: a step of one observer's task (a connection, a tick, a push, its end
\* or its disconnection) changes nothing of any other observer's task and
\* pushes nothing to another observer; each task computes its snapshot from
\* the store itself and pushes the snapshot it computed.
C12_ObserversIndependent ==
    [][\A o \in Observers :
          /\ (obsPc'[o] # obsPc[o] \/ connected'[o] # connected[o]) =>
                \A p \in Observers \ {o} :
                    /\ obsPc'[p] = obsPc[p]
                    /\ connected'[p] = connected[p]
                    /\ pending'[p] = pending[p]
                    /\ sent'[p] = sent[p]
                    /\ obsEnd'[p] = obsEnd[p]
                    /\ pushed' = <<>> \/ pushed'[1].to # p
          /\ (pending'[o] # <<>> /\ obsPc[o] = "stats") =>
                pending'[o][1] \in FreshStats
          /\ (pushed' # <<>> /\ pushed'[1].to = o) =>
                /\ pending[o] # <<>>
                /\ pushed'[1].message = pending[o][1]]_vars

C12_Witness ==
    /\ obsPc["o1"] = "closed"
    /\ obsEnd["o1"] = "disconnect"
    /\ sent["o2"] = MaxTicks
    /\ pushed # <<>>
    /\ pushed[1].to = "o2"
    /\ pushed[1].message.total_orders = 1

====
